---- MODULE Spec2Model ----
(***************************************************************************)
(* Model of src/transport/mod.rs of the ire I2P router: the transport      *)
(* Handle (two unbounded mpsc queues), the Bid sink, Manager (from_config, *)
(* send, addresses, start) and the merged inbound Engine.                  *)
(***************************************************************************)
EXTENDS Integers, Sequences, FiniteSets, TLC

(* ------------------------------------------------------------------ *)
(* Bounds of the model                                                 *)
(* ------------------------------------------------------------------ *)
\* API calls made in one run of a scenario
MaxCalls == 3
\* Manager::send calls made in one run of the dispatch scenario
MaxSends == 2
\* inbound items one transport's engine stream produces in one run
MaxInbound == 2

(* ------------------------------------------------------------------ *)
(* Values                                                              *)
(* ------------------------------------------------------------------ *)
\* the two transports, in the order Manager.send and Manager.addresses
\* enumerate them
TransportOrder == <<"NTCP", "NTCP2">>
Transports == {TransportOrder[i] : i \in 1..Len(TransportOrder)}

Peers == {"p1", "p2"}
Msgs == {"m1", "m2"}
Items == Peers \X Msgs
Stamps == {42}
TsItems == Peers \X Stamps

None == <<>>

\* listen addresses a configuration may give: two that parse and one that
\* does not
AddrStrings == {"127.0.0.1:0", "127.0.0.2:0", "localhost"}
KeyfilePaths == {"test.ntcp2.keys.dat"}
\* NTCP2 key material
Keys == {"k1", "k2"}
\* config::Config: every option is None (not set) or <<string>>
Configs ==
    [ntcp_listen : {None} \cup {<<a>> : a \in AddrStrings},
     ntcp2_listen : {None} \cup {<<a>> : a \in AddrStrings},
     ntcp2_keyfile : {None} \cup {<<f>> : f \in KeyfilePaths}]
\* the configuration the test manager_addresses builds
TestConfig ==
    [ntcp_listen |-> <<"127.0.0.1:0">>, ntcp2_listen |-> <<"127.0.0.2:0">>,
     ntcp2_keyfile |-> <<"test.ntcp2.keys.dat">>]
\* what a transport's bid() may answer: None, or Some(Bid) with a cost
\* (costs are compared only with each other: two values give <, = and >)
BidCosts == {5, 10}
BidAnswers == {None} \cup {<<c>> : c \in BidCosts}

VARIABLES
    message_q,      \* per transport: the unbounded (RouterInfo, Message) channel
    timestamp_q,    \* per transport: the unbounded (RouterInfo, u32) channel
    message_rx,     \* per transport: "open" while the MessageRx exists
    timestamp_rx,   \* per transport: "open" while the TimestampRx exists
    msg_sent,       \* history: items accepted by each message channel
    msg_seen,       \* history: items the consumer of each message channel got
    ts_sent,        \* history: items accepted by each timestamp channel
    ts_seen,        \* history: items the consumer of each timestamp channel got
    pending,        \* the pending sends Manager.send returned, not yet driven
    ret,            \* the last operation performed and what it returned
    ncalls,         \* API calls made so far
    config,         \* the Config the Manager was built from
    keyfile,        \* content of the NTCP2 key file: None, or <<key>>
    keyfile_writable, \* whether a write of the key file succeeds
    manager,        \* "absent", or "live" once from_config has returned
    ntcp,           \* Manager.ntcp: the NTCP transport manager
    ntcp_engine,    \* Manager.ntcp_engine: "Some" or "None"
    ntcp2,          \* Manager.ntcp2: the NTCP2 transport manager
    ntcp2_engine,   \* Manager.ntcp2_engine: "Some" or "None"
    fut,            \* the future Manager.start returned
    engine,         \* the merged Engine inside that future
    select,         \* Engine.engines: the Select of the two engine streams
    stream,         \* per transport: what its engine stream has ready
    ended,          \* per transport: its engine stream ends after that
    arrived,        \* history: inbound items each transport produced
    handled,        \* history: calls of msg_handler.handle, in order
    listener,       \* per transport: its listener future inside the join
    listener_evt,   \* per transport: what its listener's next poll finds
    errlog          \* what error!() has logged

sendVars == <<message_q, timestamp_q, message_rx, timestamp_rx, msg_sent,
              msg_seen, ts_sent, ts_seen, pending>>
managerVars == <<config, keyfile, keyfile_writable, manager, ntcp, ntcp_engine,
                 ntcp2, ntcp2_engine>>
engineVars == <<fut, engine, select, stream, ended, arrived, handled, listener,
                listener_evt, errlog>>

vars == <<sendVars, ret, ncalls, managerVars, engineVars>>

queueVars == <<message_q, timestamp_q, message_rx, timestamp_rx>>
logVars == <<msg_sent, msg_seen, ts_sent, ts_seen>>

Label(op, t, arg, res, val) ==
    [op |-> op, t |-> t, arg |-> arg, res |-> res, val |-> val]

\* the label of a step of the environment
Environment == Label("environment", "-", None, "-", None)

Init ==
    /\ message_q = [t \in Transports |-> <<>>]
    /\ timestamp_q = [t \in Transports |-> <<>>]
    /\ message_rx = [t \in Transports |-> "open"]
    /\ timestamp_rx = [t \in Transports |-> "open"]
    /\ msg_sent = [t \in Transports |-> <<>>]
    /\ msg_seen = [t \in Transports |-> <<>>]
    /\ ts_sent = [t \in Transports |-> <<>>]
    /\ ts_seen = [t \in Transports |-> <<>>]
    /\ pending = <<>>
    /\ ret = Label("init", "-", None, "-", None)
    /\ ncalls = 0
    /\ config = None
    /\ keyfile = None
    /\ keyfile_writable = TRUE
    /\ manager = "absent"
    /\ ntcp = None
    /\ ntcp_engine = "None"
    /\ ntcp2 = None
    /\ ntcp2_engine = "None"
    /\ fut = "none"
    /\ engine = "none"
    /\ select = [flag |-> FALSE, fused |-> [t \in Transports |-> FALSE]]
    /\ stream = [t \in Transports |-> <<>>]
    /\ ended = [t \in Transports |-> FALSE]
    /\ arrived = [t \in Transports |-> 0]
    /\ handled = <<>>
    /\ listener = [t \in Transports |-> "none"]
    /\ listener_evt = [t \in Transports |-> "none"]
    /\ errlog = {}

(* ------------------------------------------------------------------ *)
(* futures::sync::mpsc unbounded channel, as used by Handle and Bid    *)
(* ------------------------------------------------------------------ *)
\* a channel that returns Ok but loses the item
ChanSendLosing(rx, q, item) ==
    IF rx = "open" THEN [res |-> "Ok", q |-> q] ELSE [res |-> "Err", q |-> q]

\* a channel that still accepts items after its receiver is gone
ChanSendIgnoringClose(rx, q, item) ==
    [res |-> "Ok", q |-> Append(q, item)]

\* a channel that puts a new item in front of the queued ones
ChanSendPushingFront(rx, q, item) ==
    IF rx = "open" THEN [res |-> "Ok", q |-> <<item>> \o q] ELSE [res |-> "Err", q |-> q]

\* UnboundedSender::unbounded_send / start_send: Err once the receiver is
\* gone, otherwise the item is pushed at the tail and the call returns Ok
ChanSend(rx, q, item) ==
    IF rx = "open" THEN [res |-> "Ok", q |-> Append(q, item)] ELSE [res |-> "Err", q |-> q]

(* ------------------------------------------------------------------ *)
(* Handle                                                              *)
(* ------------------------------------------------------------------ *)
\* Handle::send: self.message.unbounded_send((peer, msg)).map_err(..)
HandleSend(t, peer, msg) ==
    LET r == ChanSend(message_rx[t], message_q[t], <<peer, msg>>) IN
    /\ ncalls < MaxCalls
    /\ ncalls' = ncalls + 1
    /\ message_q' = [message_q EXCEPT ![t] = r.q]
    /\ msg_sent' = IF r.res = "Ok"
                   THEN [msg_sent EXCEPT ![t] = Append(@, <<peer, msg>>)]
                   ELSE msg_sent
    /\ ret' = Label("Handle.send", t, <<peer, msg>>, r.res, None)
    /\ UNCHANGED <<timestamp_q, message_rx, timestamp_rx, msg_seen, ts_sent,
                   ts_seen, pending, managerVars, engineVars>>

\* a timestamp call that enqueues on the message channel as well
HandleTimestampSharingQueue(t, peer, ts) ==
    LET r == ChanSend(timestamp_rx[t], timestamp_q[t], <<peer, ts>>) IN
    /\ ncalls < MaxCalls
    /\ ncalls' = ncalls + 1
    /\ timestamp_q' = [timestamp_q EXCEPT ![t] = r.q]
    /\ message_q' = [message_q EXCEPT ![t] = ChanSend(message_rx[t], @, <<peer, ts>>).q]
    /\ ts_sent' = IF r.res = "Ok"
                  THEN [ts_sent EXCEPT ![t] = Append(@, <<peer, ts>>)]
                  ELSE ts_sent
    /\ ret' = Label("Handle.timestamp", t, <<peer, ts>>, r.res, None)
    /\ UNCHANGED <<message_rx, timestamp_rx, msg_sent, msg_seen, ts_seen, pending, managerVars, engineVars>>

\* Handle::timestamp: self.timestamp.unbounded_send((peer, ts)).map_err(..)
HandleTimestamp(t, peer, ts) ==
    LET r == ChanSend(timestamp_rx[t], timestamp_q[t], <<peer, ts>>) IN
    /\ ncalls < MaxCalls
    /\ ncalls' = ncalls + 1
    /\ timestamp_q' = [timestamp_q EXCEPT ![t] = r.q]
    /\ ts_sent' = IF r.res = "Ok"
                  THEN [ts_sent EXCEPT ![t] = Append(@, <<peer, ts>>)]
                  ELSE ts_sent
    /\ ret' = Label("Handle.timestamp", t, <<peer, ts>>, r.res, None)
    /\ UNCHANGED <<message_q, message_rx, timestamp_rx, msg_sent, msg_seen,
                   ts_seen, pending, managerVars, engineVars>>

\* the consumer of a message channel polls it (message_rx.poll() in the
\* tests): Ready(Some(head)) when an item is queued, NotReady otherwise
MessageRxPoll(t) ==
    /\ message_rx[t] = "open"
    /\ IF message_q[t] # <<>>
       THEN /\ message_q' = [message_q EXCEPT ![t] = Tail(@)]
            /\ msg_seen' = [msg_seen EXCEPT ![t] = Append(@, Head(message_q[t]))]
            /\ ret' = Label("message_rx.poll", t, None, "Ready", Head(message_q[t]))
       ELSE /\ UNCHANGED <<message_q, msg_seen>>
            /\ ret' = Label("message_rx.poll", t, None, "NotReady", None)
    /\ UNCHANGED <<timestamp_q, message_rx, timestamp_rx, msg_sent, ts_sent,
                   ts_seen, pending, ncalls, managerVars, engineVars>>

TimestampRxPoll(t) ==
    /\ timestamp_rx[t] = "open"
    /\ IF timestamp_q[t] # <<>>
       THEN /\ timestamp_q' = [timestamp_q EXCEPT ![t] = Tail(@)]
            /\ ts_seen' = [ts_seen EXCEPT ![t] = Append(@, Head(timestamp_q[t]))]
            /\ ret' = Label("timestamp_rx.poll", t, None, "Ready", Head(timestamp_q[t]))
       ELSE /\ UNCHANGED <<timestamp_q, ts_seen>>
            /\ ret' = Label("timestamp_rx.poll", t, None, "NotReady", None)
    /\ UNCHANGED <<message_q, message_rx, timestamp_rx, msg_sent, msg_seen,
                   ts_sent, pending, ncalls, managerVars, engineVars>>

\* the owner of a transport's receiving end (both receivers) drops it: the
\* channels are closed and what was still queued is freed with them
RxDrop(t) ==
    /\ message_rx[t] = "open"
    /\ message_rx' = [message_rx EXCEPT ![t] = "dropped"]
    /\ timestamp_rx' = [timestamp_rx EXCEPT ![t] = "dropped"]
    /\ message_q' = [message_q EXCEPT ![t] = <<>>]
    /\ timestamp_q' = [timestamp_q EXCEPT ![t] = <<>>]
    /\ ret' = Label("rx.drop", t, None, "-", None)
    /\ UNCHANGED <<logVars, pending, ncalls, managerVars, engineVars>>

CallHandleSend == \E t \in Transports, p \in Peers, m \in Msgs : HandleSend(t, p, m)
CallHandleTimestamp ==
    \E t \in Transports, p \in Peers, ts \in Stamps : HandleTimestamp(t, p, ts)
PollMessageRx == \E t \in Transports : MessageRxPoll(t)
PollTimestampRx == \E t \in Transports : TimestampRxPoll(t)
DropRx == \E t \in Transports : RxDrop(t)

\* a Handle used directly, as the tests handle_send and handle_timestamp do
NextHandle ==
    \/ CallHandleSend
    \/ CallHandleTimestamp
    \/ PollMessageRx
    \/ PollTimestampRx
    \/ DropRx

SpecHandle == Init /\ [][NextHandle]_vars

(* ------------------------------------------------------------------ *)
(* Producers sharing clones of a Handle                                *)
(* ------------------------------------------------------------------ *)
\* the producers: each holds a clone of a transport's Handle and sends its
\* own messages, to its own peer, in its own order (as handle_send does
\* with one producer)
Producers == {"A", "B"}
ProducerPeer == [p \in Producers |-> IF p = "A" THEN "p1" ELSE "p2"]
MsgOrder == <<"m1", "m2">>
Script(p) == [i \in 1..Len(MsgOrder) |-> <<ProducerPeer[p], MsgOrder[i]>>]

\* the items of producer p in a sequence of items
OwnItems(p, seq) == SelectSeq(seq, LAMBDA it : it[1] = ProducerPeer[p])

\* how many of its messages producer p has got accepted by transport t's
\* Handle so far
SentBy(p, t) == Len(OwnItems(p, msg_sent[t]))

\* producer p calls Handle::send on its clone of transport t's Handle with
\* its next message; a call that fails leaves the message to be sent
ProducerSend(p, t) ==
    /\ SentBy(p, t) < Len(MsgOrder)
    /\ HandleSend(t, ProducerPeer[p], MsgOrder[SentBy(p, t) + 1])

CallProducerSend == \E p \in Producers, t \in Transports : ProducerSend(p, t)

\* many producers and the one consumer of each queue, in any interleaving
NextProducers ==
    \/ CallProducerSend
    \/ PollMessageRx
    \/ DropRx

SpecProducers == Init /\ [][NextProducers]_vars

(* ------------------------------------------------------------------ *)
(* Bid and Manager::send                                               *)
(* ------------------------------------------------------------------ *)
\* Some(Bid { bid, handle }) of a transport, or None
BidOf(t, answer) ==
    IF answer = None THEN None ELSE <<[bid |-> answer[1], handle |-> t]>>

\* once(ntcp.bid(..)).chain(once(ntcp2.bid(..))).filter_map(|b| b): the bids
\* that are Some, in the order the transports are enumerated
FilterMap(answers) ==
    LET F[i \in 0..Len(TransportOrder)] ==
            IF i = 0 THEN <<>>
            ELSE F[i - 1] \o BidOf(TransportOrder[i], answers[TransportOrder[i]])
    IN F[Len(TransportOrder)]

\* msg.size() and msg.ntcp2_size(): the two sizes of a message, kept as
\* the calls they come from
Size(msg) == <<"size", msg>>
Ntcp2Size(msg) == <<"ntcp2_size", msg>>

\* bid calls that give both transports the size computed for NTCP
BidQueriesSharingSize(peer, msg) ==
    <<[t |-> "NTCP", peer |-> peer, size |-> Size(msg)],
      [t |-> "NTCP2", peer |-> peer, size |-> Size(msg)]>>

\* self.ntcp.bid(&peer, msg.size()) and self.ntcp2.bid(&peer,
\* msg.ntcp2_size()): the bid calls Manager::send makes, in order
BidQueries(peer, msg) ==
    <<[t |-> "NTCP", peer |-> peer, size |-> Size(msg)],
      [t |-> "NTCP2", peer |-> peer, size |-> Ntcp2Size(msg)]>>

\* a selection in which a later bid of equal cost replaces the earlier one
MinByKeyLastWins(bids) ==
    LET F[i \in 0..Len(bids)] ==
            IF i = 0 THEN None
            ELSE IF F[i - 1] = None THEN <<bids[i]>>
            ELSE IF bids[i].bid <= F[i - 1][1].bid THEN <<bids[i]>>
            ELSE F[i - 1]
    IN F[Len(bids)]

\* Iterator::min_by_key(|b| b.bid): None for no bids, otherwise the bid of
\* least cost, the first of them when several are equally minimum
MinByKey(bids) ==
    LET F[i \in 0..Len(bids)] ==
            IF i = 0 THEN None
            ELSE IF F[i - 1] = None THEN <<bids[i]>>
            ELSE IF bids[i].bid < F[i - 1][1].bid THEN <<bids[i]>>
            ELSE F[i - 1]
    IN F[Len(bids)]

\* a send that, without a bid, reports the failure but keeps the message
NoRouteLosing(peer, msg) == None

\* None => Err((peer, msg)): the pair handed back to the caller
NoRoute(peer, msg) == <<peer, msg>>

\* Manager::send. answers[t] is what transport t's bid() returns for this
\* peer and message. With a winning bid the result is Ok(future): the
\* future owns the Bid and the pair and has not touched the queue yet.
ManagerSend(peer, msg, answers) ==
    LET best == MinByKey(FilterMap(answers)) IN
    /\ ncalls' = ncalls + 1
    /\ IF best # None
       THEN /\ pending' = Append(pending, [bid |-> best[1], item |-> <<peer, msg>>])
            /\ ret' = Label("Manager.send", best[1].handle,
                            <<peer, msg, answers, BidQueries(peer, msg)>>, "Ok", None)
       ELSE /\ pending' = pending
            /\ ret' = Label("Manager.send", "-",
                            <<peer, msg, answers, BidQueries(peer, msg)>>,
                            "Err", NoRoute(peer, msg))
    /\ UNCHANGED <<queueVars, logVars, managerVars, engineVars>>

\* a start_send that reports success although the queue is closed
BidStartSendSwallowingError(bid, item) ==
    [res |-> "Ok", q |-> ChanSend(message_rx[bid.handle], message_q[bid.handle], item).q]

\* Bid::start_send (self.handle.message.start_send(message).map_err(|_| ()))
\* followed by Bid::poll_complete, which is always Ready on an unbounded
\* sender
BidStartSend(bid, item) ==
    ChanSend(message_rx[bid.handle], message_q[bid.handle], item)

\* the caller drives the future returned by Manager::send:
\* bid.send((peer, msg)).map(|_| ()).map_err(|_| io::Error), one poll
PendingSendPoll(i) ==
    LET e == pending[i]
        r == BidStartSend(e.bid, e.item)
        t == e.bid.handle
    IN
    /\ pending' = SubSeq(pending, 1, i - 1) \o SubSeq(pending, i + 1, Len(pending))
    /\ message_q' = [message_q EXCEPT ![t] = r.q]
    /\ msg_sent' = IF r.res = "Ok" THEN [msg_sent EXCEPT ![t] = Append(@, e.item)]
                   ELSE msg_sent
    /\ ret' = Label("PendingSend.poll", t, e, r.res, None)
    /\ UNCHANGED <<timestamp_q, message_rx, timestamp_rx, msg_seen, ts_sent,
                   ts_seen, ncalls, managerVars, engineVars>>

\* the caller drops the future without polling it: the Bid and the pair it
\* owns are freed
PendingSendDrop(i) ==
    /\ pending' = SubSeq(pending, 1, i - 1) \o SubSeq(pending, i + 1, Len(pending))
    /\ ret' = Label("PendingSend.drop", pending[i].bid.handle, pending[i], "-", None)
    /\ UNCHANGED <<queueVars, logVars, ncalls, managerVars, engineVars>>

CallManagerSend ==
    /\ ncalls < MaxSends
    /\ \E p \in Peers, m \in Msgs, answers \in [Transports -> BidAnswers] :
          ManagerSend(p, m, answers)
DrivePendingSend == \E i \in 1..Len(pending) : PendingSendPoll(i)
DropPendingSend == \E i \in 1..Len(pending) : PendingSendDrop(i)

\* outbound dispatch: callers of Manager::send, the transports consuming
\* their queues, and transports going away
NextSend ==
    \/ CallManagerSend
    \/ DrivePendingSend
    \/ DropPendingSend
    \/ PollMessageRx
    \/ DropRx

SpecSend == Init /\ [][NextSend]_vars

(* ------------------------------------------------------------------ *)
(* Manager::from_config, Manager::addresses                            *)
(* ------------------------------------------------------------------ *)
\* str::parse::<SocketAddr>(): Ok(addr) for "ip:port", Err otherwise
ParseSocketAddr(str) ==
    CASE str = "127.0.0.1:0" -> <<[ip |-> <<127, 0, 0, 1>>, port |-> 0]>>
      [] str = "127.0.0.2:0" -> <<[ip |-> <<127, 0, 0, 2>>, port |-> 0]>>
      [] OTHER -> None

\* the config reads of Manager::from_config, each with its expect or unwrap
ListenConfig(cfg) ==
    IF cfg.ntcp_listen = None
    THEN [res |-> "Panic", msg |-> "Must configure an NTCP address"]
    ELSE IF ParseSocketAddr(cfg.ntcp_listen[1]) = None
    THEN [res |-> "Panic", msg |-> "unwrap on Err"]
    ELSE IF cfg.ntcp2_listen = None
    THEN [res |-> "Panic", msg |-> "Must configure an NTCP2 address"]
    ELSE IF ParseSocketAddr(cfg.ntcp2_listen[1]) = None
    THEN [res |-> "Panic", msg |-> "unwrap on Err"]
    ELSE IF cfg.ntcp2_keyfile = None
    THEN [res |-> "Panic", msg |-> "unwrap on None"]
    ELSE [res |-> "Ok", ntcp_addr |-> ParseSocketAddr(cfg.ntcp_listen[1])[1],
          ntcp2_addr |-> ParseSocketAddr(cfg.ntcp2_listen[1])[1]]

\* ntcp2::Manager::to_file: the file contents for key material k
ToFile(k) == <<k>>

\* ntcp2::Manager::from_file on file contents f: the key material it
\* holds, None (an Err) when the file is absent or unreadable
FromFile(f) == IF f = None THEN None ELSE <<f[1]>>

\* a key step that always generates and saves new material
LoadOrCreateKeysRegenerating(k) ==
    IF keyfile_writable
    THEN [res |-> "Ok", key |-> k, keyfile |-> ToFile(k),
          did |-> <<"ntcp2::Manager::new", "ntcp2::Manager::to_file">>]
    ELSE [res |-> "Panic", msg |-> "unwrap on Err", keyfile |-> keyfile,
          did |-> <<"ntcp2::Manager::new", "ntcp2::Manager::to_file">>]

\* match ntcp2::Manager::from_file(ntcp2_addr, &keyfile) { Ok(ret) => ret,
\* Err(_) => { new; to_file(&keyfile).unwrap(); } }. k is the key material
\* ntcp2::Manager::new would generate; did lists the calls made.
LoadOrCreateKeys(k) ==
    IF FromFile(keyfile) # None
    THEN [res |-> "Ok", key |-> FromFile(keyfile)[1], keyfile |-> keyfile,
          did |-> <<"ntcp2::Manager::from_file">>]
    ELSE IF keyfile_writable
    THEN [res |-> "Ok", key |-> k, keyfile |-> ToFile(k),
          did |-> <<"ntcp2::Manager::from_file", "ntcp2::Manager::new",
                    "ntcp2::Manager::to_file">>]
    ELSE [res |-> "Panic", msg |-> "unwrap on Err", keyfile |-> keyfile,
          did |-> <<"ntcp2::Manager::from_file", "ntcp2::Manager::new",
                    "ntcp2::Manager::to_file">>]

\* a from_config that builds the transports before it reads the listen
\* addresses
FromConfigResultBuildingFirst(cfg, k) ==
    LET c == ListenConfig(cfg)
        m == LoadOrCreateKeys(k)
        did == <<"ntcp::Manager::new">> \o m.did
    IN
    IF m.res = "Panic"
    THEN [res |-> "Panic", msg |-> m.msg, keyfile |-> m.keyfile, did |-> did]
    ELSE IF c.res = "Panic"
    THEN [res |-> "Panic", msg |-> c.msg, keyfile |-> m.keyfile, did |-> did]
    ELSE [res |-> "Ok", ntcp |-> [addr |-> c.ntcp_addr],
          ntcp2 |-> [addr |-> c.ntcp2_addr, key |-> m.key],
          keyfile |-> m.keyfile, did |-> did]

\* Manager::from_config up to a panic or the Manager it builds: the config
\* reads, ntcp::Manager::new, the NTCP2 key material. did lists the calls
\* made on the transports and the key file, keyfile is the key file after.
FromConfigResult(cfg, k) ==
    LET c == ListenConfig(cfg) IN
    IF c.res = "Panic"
    THEN [res |-> "Panic", msg |-> c.msg, keyfile |-> keyfile, did |-> <<>>]
    ELSE LET m == LoadOrCreateKeys(k)
             did == <<"ntcp::Manager::new">> \o m.did
         IN
         IF m.res = "Panic"
         THEN [res |-> "Panic", msg |-> m.msg, keyfile |-> m.keyfile, did |-> did]
         ELSE [res |-> "Ok", ntcp |-> [addr |-> c.ntcp_addr],
               ntcp2 |-> [addr |-> c.ntcp2_addr, key |-> m.key],
               keyfile |-> m.keyfile, did |-> did]

\* Manager::from_config. The label's val holds the panic message, if any,
\* and the calls made.
ManagerFromConfig(cfg, k) ==
    LET r == FromConfigResult(cfg, k) IN
    /\ manager = "absent"
    /\ ncalls < MaxCalls
    /\ ncalls' = ncalls + 1
    /\ config' = cfg
    /\ keyfile' = r.keyfile
    /\ IF r.res = "Ok"
       THEN /\ manager' = "live"
            /\ ntcp' = r.ntcp
            /\ ntcp_engine' = "Some"
            /\ ntcp2' = r.ntcp2
            /\ ntcp2_engine' = "Some"
            /\ ret' = Label("Manager.from_config", "-", cfg, "Ok",
                            [msg |-> None, did |-> r.did])
       ELSE /\ UNCHANGED <<manager, ntcp, ntcp_engine, ntcp2, ntcp2_engine>>
            /\ ret' = Label("Manager.from_config", "-", cfg, "Panic",
                            [msg |-> <<r.msg>>, did |-> r.did])
    /\ UNCHANGED <<sendVars, keyfile_writable, engineVars>>

\* a transport manager's address(): the RouterAddress of its listen address
TransportAddress(m) == [addr |-> <<m.addr>>]

\* an addresses() that lists NTCP2 first
AddressesSwapped == <<TransportAddress(ntcp2), TransportAddress(ntcp)>>

\* vec![self.ntcp.address(), self.ntcp2.address()]
Addresses == <<TransportAddress(ntcp), TransportAddress(ntcp2)>>

ManagerAddresses ==
    /\ manager = "live"
    /\ ncalls < MaxCalls
    /\ ncalls' = ncalls + 1
    /\ ret' = Label("Manager.addresses", "-", None, "Ok", Addresses)
    /\ UNCHANGED <<sendVars, managerVars, engineVars>>

(* ------------------------------------------------------------------ *)
(* Engine: the merged inbound streams and the dispatch loop            *)
(* ------------------------------------------------------------------ *)
\* what an engine stream yields: the n-th item of transport t is <<t, n>>,
\* and <<t, 0>> stands for the stream returning Err
IsFailure(ev) == ev[2] = 0

Other(t) == CHOOSE u \in Transports : u # t

\* a stream that hands out its newest item first
FusePollNewestFirst(st, t) ==
    IF st.fused[t] THEN [res |-> "End", st |-> st]
    ELSE IF st.stream[t] # <<>>
    THEN LET n == Len(st.stream[t])
             ev == st.stream[t][n]
             st2 == [st EXCEPT !.stream[t] = SubSeq(@, 1, n - 1)]
         IN IF IsFailure(ev) THEN [res |-> "Err", st |-> st2]
            ELSE [res |-> "Item", item |-> ev, st |-> st2]
    ELSE IF ended[t] THEN [res |-> "End", st |-> [st EXCEPT !.fused[t] = TRUE]]
    ELSE [res |-> "NotReady", st |-> st]

\* Fuse<Engine>::poll of transport t's stream in loop state st
\* (st = [flag, fused, stream, handled]): a fused stream answers Ready(None)
\* without polling; otherwise the stream is polled
FusePoll(st, t) ==
    IF st.fused[t] THEN [res |-> "End", st |-> st]
    ELSE IF st.stream[t] # <<>>
    THEN LET ev == Head(st.stream[t])
             st2 == [st EXCEPT !.stream[t] = Tail(@)]
         IN IF IsFailure(ev) THEN [res |-> "Err", st |-> st2]
            ELSE [res |-> "Item", item |-> ev, st |-> st2]
    ELSE IF ended[t] THEN [res |-> "End", st |-> [st EXCEPT !.fused[t] = TRUE]]
    ELSE [res |-> "NotReady", st |-> st]

\* Select::poll: the stream named by flag is polled first and the flag
\* flips; an item of the first is returned at once; an item of the second
\* gives the first the first turn again unless the first has ended
SelectPoll(st) ==
    LET a == IF st.flag THEN "NTCP2" ELSE "NTCP"
        b == Other(a)
        ra == FusePoll([st EXCEPT !.flag = ~st.flag], a)
    IN
    IF ra.res = "Err" THEN [res |-> "Err", st |-> ra.st]
    ELSE IF ra.res = "Item" THEN ra
    ELSE LET a_done == ra.res = "End"
             rb == FusePoll(ra.st, b)
         IN
         IF rb.res = "Err" THEN [res |-> "Err", st |-> rb.st]
         ELSE IF rb.res = "Item"
         THEN [rb EXCEPT !.st.flag = IF a_done THEN @ ELSE ~@]
         ELSE IF rb.res = "End" /\ a_done THEN [res |-> "End", st |-> rb.st]
         ELSE [res |-> "NotReady", st |-> rb.st]

RECURSIVE EngineLoop(_, _)

\* an Engine::poll that passes over a stream's error and goes on
EngineLoopSkippingErrors(st, seen) ==
    LET r == SelectPoll(st) IN
    CASE r.res = "Err" -> EngineLoop(r.st, seen)
      [] r.res = "NotReady" -> [out |-> "NotReady", st |-> r.st]
      [] r.res = "Item" ->
            EngineLoop([r.st EXCEPT !.handled = Append(@, r.item)], {})
      [] r.res = "End" ->
            IF r.st \in seen THEN [out |-> "Hang", st |-> r.st]
            ELSE EngineLoop(r.st, seen \cup {r.st})

\* an Engine::poll that completes with Ready when the merged stream ends
EngineLoopEnding(st, seen) ==
    LET r == SelectPoll(st) IN
    CASE r.res = "Err" -> [out |-> "Err", st |-> r.st]
      [] r.res = "NotReady" -> [out |-> "NotReady", st |-> r.st]
      [] r.res = "Item" ->
            EngineLoop([r.st EXCEPT !.handled = Append(@, r.item)], {})
      [] r.res = "End" -> [out |-> "Ready", st |-> r.st]

\* Engine::poll: while let Async::Ready(f) = self.engines.poll()? { if let
\* Some((from, msg)) = f { handle } } Ok(NotReady). seen holds the loop
\* states already passed with no item handled since: when one of them
\* comes back the loop repeats for ever and poll never returns ("Hang").
EngineLoop(st, seen) ==
    LET r == SelectPoll(st) IN
    CASE r.res = "Err" -> [out |-> "Err", st |-> r.st]
      [] r.res = "NotReady" -> [out |-> "NotReady", st |-> r.st]
      [] r.res = "Item" ->
            EngineLoop([r.st EXCEPT !.handled = Append(@, r.item)], {})
      [] r.res = "End" ->
            IF r.st \in seen THEN [out |-> "Hang", st |-> r.st]
            ELSE EngineLoop(r.st, seen \cup {r.st})

EnginePoll ==
    EngineLoop([flag |-> select.flag, fused |-> select.fused,
                stream |-> stream, handled |-> handled], {})

(* ------------------------------------------------------------------ *)
(* Manager::start and the future it returns                            *)
(* ------------------------------------------------------------------ *)
\* the engines are taken and moved into the Engine, the listeners are
\* created, and the three are joined
StartTaken ==
    /\ ntcp_engine' = "None"
    /\ ntcp2_engine' = "None"
    /\ fut' = "pending"
    /\ engine' = "running"
    /\ select' = [flag |-> FALSE, fused |-> [t \in Transports |-> FALSE]]
    /\ listener' = [t \in Transports |-> "running"]
    /\ ret' = Label("Manager.start", "-", None, "Ok", None)
    /\ UNCHANGED <<stream, ended, arrived, handled, listener_evt, errlog>>

\* a start that, called again, builds a new Engine and new listeners
ManagerStartAgain ==
    /\ manager = "live"
    /\ ncalls < MaxCalls
    /\ ncalls' = ncalls + 1
    /\ StartTaken
    /\ UNCHANGED <<sendVars, config, keyfile, keyfile_writable, manager, ntcp, ntcp2>>

\* a start that takes the NTCP engine only and leaves the NTCP2 engine in
\* its slot
ManagerStartTakingOne ==
    /\ manager = "live"
    /\ ncalls < MaxCalls
    /\ ncalls' = ncalls + 1
    /\ IF ntcp_engine = "None"
       THEN /\ ret' = Label("Manager.start", "-", None, "Panic",
                            "Cannot call listen() twice")
            /\ UNCHANGED <<ntcp_engine, ntcp2_engine, engineVars>>
       ELSE /\ ntcp_engine' = "None"
            /\ fut' = "pending"
            /\ engine' = "running"
            /\ listener' = [t \in Transports |-> "running"]
            /\ ret' = Label("Manager.start", "-", None, "Ok", None)
            /\ UNCHANGED <<ntcp2_engine, select, stream, ended, arrived, handled,
                           listener_evt, errlog>>
    /\ UNCHANGED <<sendVars, config, keyfile, keyfile_writable, manager, ntcp, ntcp2>>

\* Manager::start
ManagerStart ==
    /\ manager = "live"
    /\ ncalls < MaxCalls
    /\ ncalls' = ncalls + 1
    /\ IF ntcp_engine = "None"
       THEN \* self.ntcp_engine.take().expect(..) panics
            /\ ret' = Label("Manager.start", "-", None, "Panic",
                            "Cannot call listen() twice")
            /\ UNCHANGED <<ntcp_engine, ntcp2_engine, engineVars>>
       ELSE IF ntcp2_engine = "None"
       THEN \* the NTCP engine was taken and is dropped by the panic
            /\ ntcp_engine' = "None"
            /\ ret' = Label("Manager.start", "-", None, "Panic",
                            "Cannot call listen() twice")
            /\ UNCHANGED <<ntcp2_engine, engineVars>>
       ELSE StartTaken
    /\ UNCHANGED <<sendVars, config, keyfile, keyfile_writable, manager, ntcp, ntcp2>>

\* Join3::erase: what has not finished is dropped
Erased(ls) == [t \in Transports |-> IF ls[t] = "running" THEN "dropped" ELSE ls[t]]

ListenerMessage(t) == <<t, "listener error">>

\* one poll of a listener inside the join: l is the listeners' state so far
PollListener(l, t) ==
    IF l.out # "NotReady" \/ l.listener[t] # "running" THEN l
    ELSE IF listener_evt[t] = "err"
    THEN [out |-> "Err", listener |-> [l.listener EXCEPT ![t] = "failed"],
          errlog |-> l.errlog \cup {ListenerMessage(t)}]
    ELSE IF listener_evt[t] = "ok"
    THEN [l EXCEPT !.listener[t] = "done"]
    ELSE l

\* a join that runs the other parts on after one listener failed
JoinIsolating(e) ==
    LET l1 == PollListener([out |-> "NotReady", listener |-> listener,
                            errlog |-> errlog], "NTCP")
        l2 == PollListener([l1 EXCEPT !.out = "NotReady"], "NTCP2")
    IN [out |-> "NotReady", engine |-> "running", listener |-> l2.listener,
        errlog |-> l2.errlog]

\* a join that completes although a part failed
JoinSwallowing(e) ==
    LET l1 == PollListener([out |-> "NotReady", listener |-> listener,
                            errlog |-> errlog], "NTCP")
        l2 == PollListener([l1 EXCEPT !.out = "NotReady"], "NTCP2")
    IN [out |-> "NotReady", engine |-> IF e.out = "Err" THEN "failed" ELSE "running",
        listener |-> l2.listener, errlog |-> l2.errlog]

\* Join3::poll of engine.map_err(..).join3(listener, listener2), given the
\* outcome e of Engine::poll: the parts are polled in order and the first
\* error erases the others and is returned
Join(e) ==
    IF e.out = "Hang"
    THEN [out |-> "Hang", engine |-> "hung", listener |-> listener, errlog |-> errlog]
    ELSE IF e.out = "Err"
    THEN [out |-> "Err", engine |-> "failed", listener |-> Erased(listener),
          errlog |-> errlog]
    ELSE LET l1 == PollListener([out |-> "NotReady", listener |-> listener,
                                 errlog |-> errlog], "NTCP")
             l2 == PollListener(l1, "NTCP2")
             e_done == e.out = "Ready"
             all_done == e_done /\ \A t \in Transports : l2.listener[t] = "done"
         IN IF l2.out = "Err"
            THEN [out |-> "Err", engine |-> "dropped",
                  listener |-> Erased(l2.listener), errlog |-> l2.errlog]
            ELSE [out |-> IF all_done THEN "Ready" ELSE "NotReady",
                  engine |-> IF e_done THEN "done" ELSE "running",
                  listener |-> l2.listener, errlog |-> l2.errlog]

\* the executor polls the future Manager::start returned
StartFuturePoll ==
    LET e == IF engine = "done"
             THEN [out |-> "Ready",
                   st |-> [flag |-> select.flag, fused |-> select.fused,
                           stream |-> stream, handled |-> handled]]
             ELSE EnginePoll
        j == Join(e)
    IN
    /\ fut = "pending"
    /\ select' = [flag |-> e.st.flag, fused |-> e.st.fused]
    /\ stream' = e.st.stream
    /\ handled' = e.st.handled
    /\ engine' = j.engine
    /\ listener' = j.listener
    /\ errlog' = j.errlog
    /\ listener_evt' = [t \in Transports |->
                          IF listener[t] # j.listener[t] THEN "none"
                          ELSE listener_evt[t]]
    /\ fut' = CASE j.out = "Err" -> "err"
                [] j.out = "Hang" -> "hung"
                [] j.out = "Ready" -> "done"
                [] OTHER -> "pending"
    /\ ret' = Label("StartFuture.poll", "-", None, j.out,
                    IF e.out = "Err" THEN "Error in transport::Engine" ELSE None)
    /\ UNCHANGED <<sendVars, ncalls, managerVars, ended, arrived>>

\* an inbound message arrives on transport t and its engine stream has it
\* ready
InboundArrives(t) ==
    /\ fut = "pending"
    /\ ~ended[t]
    /\ arrived[t] < MaxInbound
    /\ arrived' = [arrived EXCEPT ![t] = @ + 1]
    /\ stream' = [stream EXCEPT ![t] = Append(@, <<t, arrived[t] + 1>>)]
    /\ ret' = Environment
    /\ UNCHANGED <<sendVars, ncalls, managerVars, fut, engine, select, ended,
                   handled, listener, listener_evt, errlog>>

\* transport t's engine stream will return Err
StreamFails(t) ==
    /\ fut = "pending"
    /\ ~ended[t]
    /\ \A i \in 1..Len(stream[t]) : ~IsFailure(stream[t][i])
    /\ stream' = [stream EXCEPT ![t] = Append(@, <<t, 0>>)]
    /\ ret' = Environment
    /\ UNCHANGED <<sendVars, ncalls, managerVars, fut, engine, select, ended,
                   arrived, handled, listener, listener_evt, errlog>>

\* transport t's engine stream ends: Ready(None) once it is drained
StreamEnds(t) ==
    /\ fut = "pending"
    /\ ~ended[t]
    /\ ended' = [ended EXCEPT ![t] = TRUE]
    /\ ret' = Environment
    /\ UNCHANGED <<sendVars, ncalls, managerVars, fut, engine, select, stream,
                   arrived, handled, listener, listener_evt, errlog>>

\* transport t's listener will fail (what = "err") or return (what = "ok")
ListenerEvent(t, what) ==
    /\ fut = "pending"
    /\ listener[t] = "running"
    /\ listener_evt[t] = "none"
    /\ listener_evt' = [listener_evt EXCEPT ![t] = what]
    /\ ret' = Environment
    /\ UNCHANGED <<sendVars, ncalls, managerVars, fut, engine, select, stream,
                   ended, arrived, handled, listener, errlog>>

CallFromConfig == \E cfg \in Configs, k \in Keys : ManagerFromConfig(cfg, k)
CallFromTestConfig == ManagerFromConfig(TestConfig, "k1")
CallAddresses == ManagerAddresses
CallStart == ManagerStart
CallFirstStart == ntcp_engine = "Some" /\ ManagerStart
PollStartFuture == StartFuturePoll
Inbound == \E t \in Transports : InboundArrives(t)
StreamFailure == \E t \in Transports : StreamFails(t)
StreamEnd == \E t \in Transports : StreamEnds(t)
ListenerFailure == \E t \in Transports : ListenerEvent(t, "err")
ListenerReturn == \E t \in Transports : ListenerEvent(t, "ok")

\* the process ends: the Manager and the future are dropped; the key file
\* stays
ProcessRestart ==
    /\ manager = "live"
    /\ manager' = "absent"
    /\ ntcp' = None
    /\ ntcp2' = None
    /\ ntcp_engine' = "None"
    /\ ntcp2_engine' = "None"
    /\ fut' = "none"
    /\ engine' = "none"
    /\ select' = [flag |-> FALSE, fused |-> [t \in Transports |-> FALSE]]
    /\ stream' = [t \in Transports |-> <<>>]
    /\ ended' = [t \in Transports |-> FALSE]
    /\ arrived' = [t \in Transports |-> 0]
    /\ handled' = <<>>
    /\ listener' = [t \in Transports |-> "none"]
    /\ listener_evt' = [t \in Transports |-> "none"]
    /\ ret' = Environment
    /\ UNCHANGED <<sendVars, ncalls, config, keyfile, keyfile_writable, errlog>>

\* the key file's directory becomes read-only
KeyfileLocked ==
    /\ keyfile_writable
    /\ manager = "absent"
    /\ keyfile_writable' = FALSE
    /\ ret' = Environment
    /\ UNCHANGED <<sendVars, ncalls, config, keyfile, manager, ntcp, ntcp_engine,
                   ntcp2, ntcp2_engine, engineVars>>

\* the life of a Manager: built from any configuration, asked for its
\* addresses, started (once or again), its future polled
NextManager ==
    \/ CallFromConfig
    \/ CallAddresses
    \/ CallStart
    \/ PollStartFuture
    \/ Inbound
    \/ KeyfileLocked
    \/ ProcessRestart

SpecManager == Init /\ [][NextManager]_vars

\* the router configured as in the test manager_addresses, started, and
\* receiving
NextEngine ==
    \/ CallFromTestConfig
    \/ CallFirstStart
    \/ PollStartFuture
    \/ Inbound
    \/ StreamFailure
    \/ StreamEnd
    \/ ListenerFailure
    \/ ListenerReturn

SpecEngine == Init /\ [][NextEngine]_vars

\* Manager::send called on the Manager from_config built
SendOnManager ==
    /\ manager = "live"
    /\ ncalls < MaxCalls
    /\ \E p \in Peers, m \in Msgs, answers \in [Transports -> BidAnswers] :
          ManagerSend(p, m, answers)

\* the calls a Manager's owner makes, in any order: from_config, then send,
\* addresses and start, start also a second time
NextCalls ==
    \/ CallFromTestConfig
    \/ SendOnManager
    \/ CallAddresses
    \/ CallStart

SpecCalls == Init /\ [][NextCalls]_vars

\* every operation and every step of the environment
Next ==
    \/ NextHandle
    \/ NextProducers
    \/ NextSend
    \/ NextManager
    \/ NextEngine
    \/ NextCalls

Spec == Init /\ [][Next]_vars

(* ------------------------------------------------------------------ *)
(* Claims about Manager::send                                          *)
(* ------------------------------------------------------------------ *)
Position(t) == CHOOSE i \in 1..Len(TransportOrder) : TransportOrder[i] = t

\* the transport the claim names: smallest bid, the one enumerated first on
\* equal bids
Cheapest(answers) ==
    CHOOSE t \in Transports :
        /\ answers[t] # None
        /\ \A u \in Transports \ {t} :
              answers[u] # None =>
                  \/ answers[t][1] < answers[u][1]
                  \/ answers[t][1] = answers[u][1] /\ Position(t) < Position(u)

\* a Manager.send step with at least one bid returns Ok and hands (P, M) to
\* the cheapest transport's Bid, touching no queue itself
SendPicksCheapest ==
    (ret'.op = "Manager.send" /\ \E t \in Transports : ret'.arg[3][t] # None) =>
        /\ ret'.res = "Ok"
        /\ Len(pending') = Len(pending) + 1
        /\ SubSeq(pending', 1, Len(pending)) = pending
        /\ pending'[Len(pending')].item = <<ret'.arg[1], ret'.arg[2]>>
        /\ pending'[Len(pending')].bid.handle = Cheapest(ret'.arg[3])
        /\ pending'[Len(pending')].bid.bid = ret'.arg[3][Cheapest(ret'.arg[3])][1]
        /\ message_q' = message_q
        /\ timestamp_q' = timestamp_q

\* the step that drives a pending send appends its pair to the queue of the
\* transport that won the bidding and to no other
DriveDelivers ==
    /\ ret'.res = "Ok"
    /\ message_q' = [message_q EXCEPT ![ret'.t] = Append(@, ret'.arg.item)]
    /\ timestamp_q' = timestamp_q

\* C1 as stated: with at least one bid Manager.send returns Ok and, once
\* the pending send is driven, (P, M) is appended to the queue of the
\* transport with the smallest bid (NTCP on equal bids) and the other
\* transport's queue is unchanged.
C1_AsStated ==
    [][/\ SendPicksCheapest
       /\ ret'.op = "PendingSend.poll" => DriveDelivers]_vars

\* C1 amended: the same, provided the winning transport's receiving end
\* still exists when the pending send is driven; when it has been dropped
\* the pending send resolves to an error and no queue changes.
C1_CheapestBidGetsMessage ==
    [][/\ SendPicksCheapest
       /\ ret'.op = "PendingSend.poll" =>
             IF message_rx[ret'.t] = "open"
             THEN DriveDelivers
             ELSE /\ ret'.res = "Err"
                  /\ message_q' = message_q
                  /\ timestamp_q' = timestamp_q]_vars

\* a pending send won by NTCP2 with the lower cost was driven and delivered,
\* after an earlier one had been delivered to NTCP
C1_Witness ==
    /\ ret.op = "PendingSend.poll"
    /\ ret.res = "Ok"
    /\ ret.t = "NTCP2"
    /\ ret.arg.bid.bid = 5
    /\ message_q["NTCP2"] = <<ret.arg.item>>
    /\ message_q["NTCP"] # <<>>

\* C2: when both transports return no bid, Manager.send returns Err
\* carrying exactly the (P, M) it was given, leaves nothing pending, and no
\* message queue or timestamp queue gains an item.
C2_NoBidReturnsMessage ==
    [][(ret'.op = "Manager.send" /\ \A t \in Transports : ret'.arg[3][t] = None) =>
          /\ ret'.res = "Err"
          /\ ret'.val = <<ret'.arg[1], ret'.arg[2]>>
          /\ pending' = pending
          /\ message_q' = message_q
          /\ timestamp_q' = timestamp_q]_vars

\* a send without any bid came back while another message was queued
C2_Witness ==
    /\ ret.op = "Manager.send"
    /\ ret.res = "Err"
    /\ ret.val = <<"p2", "m1">>
    /\ \E t \in Transports : message_q[t] # <<>>

(* ------------------------------------------------------------------ *)
(* Claims about Manager::start, Manager::addresses and the Engine      *)
(* ------------------------------------------------------------------ *)
\* C6: a second Manager.start on the same Manager fails fast with the
\* "Cannot call listen() twice" programming error, changes no Manager
\* state, starts no second listener or engine, and leaves the Engine and
\* the listeners of the first call as they were.
C6_SecondStartPanics ==
    [][(ret'.op = "Manager.start" /\ fut # "none") =>
          /\ ret'.res = "Panic"
          /\ ret'.val = "Cannot call listen() twice"
          /\ UNCHANGED <<managerVars, engineVars>>]_vars

\* start was called again while the first call's Engine, which has already
\* dispatched a message, and listeners were running
C6_Witness ==
    /\ ret.op = "Manager.start"
    /\ ret.res = "Panic"
    /\ fut = "pending"
    /\ engine = "running"
    /\ handled # <<>>
    /\ \A t \in Transports : listener[t] = "running"

\* the items of transport t among the handler's calls, in call order
HandledOf(t) == SelectSeq(handled, LAMBDA it : it[1] = t)

\* the items transport t's stream still holds
WaitingOf(t) == SelectSeq(stream[t], LAMBDA ev : ~IsFailure(ev))

\* C7: whatever arrives on the NTCP and on the NTCP2 engine stream, in any
\* relative timing, the running merged Engine calls the inbound handler
\* exactly once per item and in each transport's own stream order:
\* the handler's calls for a transport are its 1st, 2nd, .. item without
\* gap or repetition, together with what still waits in the stream they are
\* all that arrived, and after a poll that left the Engine running nothing
\* that arrived is waiting.
C7_EachInboundItemHandledOnce ==
    \A t \in Transports :
        /\ HandledOf(t) = [i \in 1..Len(HandledOf(t)) |-> <<t, i>>]
        /\ engine = "running" =>
              HandledOf(t) \o WaitingOf(t) = [i \in 1..arrived[t] |-> <<t, i>>]
        /\ (ret.op = "StartFuture.poll" /\ engine = "running") =>
              Len(HandledOf(t)) = arrived[t]

\* two items of each transport were handled, interleaved
C7_Witness ==
    /\ engine = "running"
    /\ \A t \in Transports : Len(HandledOf(t)) = 2
    /\ handled[1][1] # handled[2][1]

\* C8: Manager.addresses returns exactly one entry per transport, NTCP
\* first and NTCP2 second, each the listen address configured for that
\* transport, whether it is called before or after Manager.start.
C8_AddressesInRegistrationOrder ==
    ret.op = "Manager.addresses" =>
        /\ Len(ret.val) = Len(TransportOrder)
        /\ ret.val[1].addr = ParseSocketAddr(config.ntcp_listen[1])
        /\ ret.val[2].addr = ParseSocketAddr(config.ntcp2_listen[1])
        /\ \A i \in 1..Len(ret.val) : ret.val[i].addr # None

\* addresses was called after start on a Manager whose transports listen
\* on different addresses
C8_Witness ==
    /\ ret.op = "Manager.addresses"
    /\ fut = "pending"
    /\ ret.val[1] # ret.val[2]

\* C9: the operation Manager.start returns fails whenever one of its three
\* parts fails: an Err of the Engine's dispatch loop, of the NTCP listener
\* or of the NTCP2 listener makes it resolve to an error.
C9_AnyFailureFailsStart ==
    /\ engine = "failed" => fut = "err"
    /\ \A t \in Transports : listener[t] = "failed" => fut = "err"
    /\ fut = "err" => ret.op = "StartFuture.poll" /\ ret.res = "Err"

\* the NTCP2 listener, polled last, failed after the Engine had dispatched
\* a message and the NTCP listener had returned
C9_Witness ==
    /\ fut = "err"
    /\ listener["NTCP2"] = "failed"
    /\ listener["NTCP"] = "done"
    /\ handled # <<>>

\* C10 as stated: after one transport's listener has failed the other
\* transport's listener keeps being run.
C10_AsStated ==
    \A t \in Transports :
        listener[t] = "failed" => listener[Other(t)] \in {"running", "done"}

\* C10 amended: the failure of one transport's listener is reported
\* (logged) and fails the joined operation, which drops the other
\* transport's listener, unless that one had already returned, and the
\* Engine: the other listener is not run any more.
C10_ListenerFailureStopsTheOthers ==
    \A t \in Transports :
        listener[t] = "failed" =>
            /\ ListenerMessage(t) \in errlog
            /\ listener[Other(t)] \in {"dropped", "done"}
            /\ engine = "dropped"
            /\ fut = "err"

\* the NTCP listener failed and the NTCP2 listener, still running, was
\* dropped with it
C10_Witness ==
    /\ listener["NTCP"] = "failed"
    /\ listener["NTCP2"] = "dropped"
    /\ errlog = {ListenerMessage("NTCP")}

(* ------------------------------------------------------------------ *)
(* Claims about Handle                                                 *)
(* ------------------------------------------------------------------ *)
IsPrefix(s, w) == Len(s) <= Len(w) /\ SubSeq(w, 1, Len(s)) = s

\* what a consumer has seen and can still see of a channel is exactly what
\* the successful calls put in, in call order
FifoChannel(rx, q, sent, seen) ==
    /\ IsPrefix(seen, sent)
    /\ rx = "open" => sent = seen \o q

\* C3: for any sequence of successful Handle.send calls on one Handle the
\* consumer of the message queue observes exactly one item per call, equal
\* to the pair passed, in call order (nothing merged, duplicated, reordered
\* or dropped); the queue is empty before the first send and again after
\* the last item was polled; the same for Handle.timestamp and the
\* timestamp queue.
C3_HandleQueuesAreFifo ==
    /\ \A t \in Transports :
          /\ FifoChannel(message_rx[t], message_q[t], msg_sent[t], msg_seen[t])
          /\ FifoChannel(timestamp_rx[t], timestamp_q[t], ts_sent[t], ts_seen[t])
    /\ (ret.op = "message_rx.poll" /\ ret.res = "Ready") =>
          /\ msg_seen[ret.t] # <<>>
          /\ ret.val = msg_sent[ret.t][Len(msg_seen[ret.t])]
    /\ (ret.op = "message_rx.poll" /\ ret.res = "NotReady") =>
          msg_seen[ret.t] = msg_sent[ret.t]
    /\ (ret.op = "timestamp_rx.poll" /\ ret.res = "Ready") =>
          /\ ts_seen[ret.t] # <<>>
          /\ ret.val = ts_sent[ret.t][Len(ts_seen[ret.t])]
    /\ (ret.op = "timestamp_rx.poll" /\ ret.res = "NotReady") =>
          ts_seen[ret.t] = ts_sent[ret.t]

\* two different items were sent on one Handle and the consumer has polled
\* both, leaving the queue empty
C3_Witness ==
    \E t \in Transports :
        /\ Len(msg_seen[t]) = 2
        /\ msg_seen[t][1] # msg_seen[t][2]
        /\ message_q[t] = <<>>
        /\ ret.op = "message_rx.poll"

\* C4: Handle.send and Handle.timestamp use independent queues: a
\* Handle.timestamp call leaves every message queue unchanged and a
\* Handle.send call leaves every timestamp queue unchanged, in any
\* interleaving of the two.
C4_IndependentQueues ==
    [][/\ ret'.op = "Handle.timestamp" => message_q' = message_q
       /\ ret'.op = "Handle.send" => timestamp_q' = timestamp_q]_vars

\* a timestamp was accepted while a message was waiting on the same Handle
C4_Witness ==
    /\ ret.op = "Handle.timestamp"
    /\ ret.res = "Ok"
    /\ message_q[ret.t] # <<>>
    /\ timestamp_q[ret.t] # <<>>

\* C5: once the receiving end of a Handle has been dropped, every
\* Handle.send and Handle.timestamp call on it returns Err (a value, not a
\* panic) and no queue gains an item.
C5_ClosedQueueFails ==
    [][(ret'.op \in {"Handle.send", "Handle.timestamp"}
          /\ message_rx[ret'.t] = "dropped")
       => /\ ret'.res = "Err"
          /\ message_q' = message_q
          /\ timestamp_q' = timestamp_q]_vars

\* a Handle.send and a Handle.timestamp were refused on a dropped Handle
C5_Witness ==
    /\ ret.op = "Handle.timestamp"
    /\ ret.res = "Err"
    /\ message_rx[ret.t] = "dropped"
    /\ msg_sent[ret.t] # <<>>

(* ------------------------------------------------------------------ *)
(* C11                                                                 *)
(* ------------------------------------------------------------------ *)
\* C11: the merged Engine never produces a final value: no poll of the
\* Engine returns Ready, so the future Manager::start returned never
\* completes successfully; the Engine is running (inside or between
\* polls) or was stopped by a failure, its own or a listener's.
C11_EngineNeverReady ==
    /\ ret.op = "StartFuture.poll" => ret.res \in {"NotReady", "Err", "Hang"}
    /\ fut \in {"none", "pending", "err", "hung"}
    /\ engine \in {"none", "running", "hung", "failed", "dropped"}
    /\ engine \in {"failed", "dropped"} => fut = "err"

\* the Engine was polled after both streams ended and both listeners
\* returned, with every item handled: nothing is left to do, and the
\* future is still not complete
C11_Witness ==
    /\ ret.op = "StartFuture.poll"
    /\ \A t \in Transports : ended[t] /\ WaitingOf(t) = <<>> /\ listener[t] = "done"
    /\ handled # <<>>
    /\ fut # "err"

(* ------------------------------------------------------------------ *)
(* C12                                                                 *)
(* ------------------------------------------------------------------ *)
\* a call of Manager::send returns the pair (no route) or keeps it in a
\* pending send; no queue changes yet
SendReturnsOrHolds ==
    ret'.op = "Manager.send" =>
        /\ UNCHANGED <<message_q, timestamp_q>>
        /\ \/ /\ ret'.res = "Err"
              /\ ret'.val = <<ret'.arg[1], ret'.arg[2]>>
              /\ pending' = pending
           \/ /\ ret'.res = "Ok"
              /\ Len(pending') = Len(pending) + 1
              /\ SubSeq(pending', 1, Len(pending)) = pending
              /\ pending'[Len(pending')].item = <<ret'.arg[1], ret'.arg[2]>>

\* the pending send e was polled: its pair went to exactly one transport's
\* message queue, or the poll reported an error and no queue changed
PolledOutcome(e) ==
    /\ ret'.op = "PendingSend.poll"
    /\ ret'.arg = e
    /\ UNCHANGED timestamp_q
    /\ \/ /\ ret'.res = "Ok"
          /\ \E t \in Transports :
                /\ message_q'[t] = Append(message_q[t], e.item)
                /\ message_q'[Other(t)] = message_q[Other(t)]
       \/ /\ ret'.res = "Err"
          /\ UNCHANGED message_q

\* the pending send e was dropped by the caller without being polled
DroppedUnpolled(e) ==
    /\ ret'.op = "PendingSend.drop"
    /\ ret'.arg = e
    /\ UNCHANGED <<message_q, timestamp_q>>

\* the pending send that leaves pending in this step
Leaving == CHOOSE i \in 1..Len(pending) :
              pending' = SubSeq(pending, 1, i - 1) \o SubSeq(pending, i + 1, Len(pending))

\* pending sends change only by one being added by Manager::send or one
\* leaving
PendingKept ==
    /\ Len(pending') >= Len(pending) - 1
    /\ Len(pending') = Len(pending) => pending' = pending
    /\ Len(pending') > Len(pending) => ret'.op = "Manager.send"
    /\ Len(pending') < Len(pending) =>
          \E i \in 1..Len(pending) :
              pending' = SubSeq(pending, 1, i - 1) \o SubSeq(pending, i + 1, Len(pending))

\* C12 as stated: every pair given to Manager::send is returned to the
\* caller, or enqueued on exactly one transport's message queue, or its
\* pending send reports an error; it never disappears otherwise
C12_AsStated ==
    [][/\ SendReturnsOrHolds
       /\ PendingKept
       /\ Len(pending') < Len(pending) => PolledOutcome(pending[Leaving])]_vars

\* C12: every pair given to Manager::send is returned to the caller (no
\* route) or held by the pending send; when the pending send is polled
\* the pair is enqueued on exactly one transport's message queue or the
\* poll reports an error. Until then nothing is enqueued: a pending send
\* dropped unpolled discards the pair with none of these outcomes.
C12_DrivenSendHasOneOutcome ==
    [][/\ SendReturnsOrHolds
       /\ PendingKept
       /\ Len(pending') < Len(pending) =>
             \/ PolledOutcome(pending[Leaving])
             \/ DroppedUnpolled(pending[Leaving])]_vars

\* two pending sends were polled: one pair was enqueued, the other poll
\* reported an error
C12_Witness ==
    /\ ret.op = "PendingSend.poll"
    /\ ret.res = "Err"
    /\ \E t \in Transports : msg_sent[t] # <<>>
    /\ pending = <<>>

(* ------------------------------------------------------------------ *)
(* C13, C14                                                            *)
(* ------------------------------------------------------------------ *)
\* C13 as stated: each call of Engine::poll terminates: it forwards every
\* item currently available and, as soon as none is available (also when
\* a component stream or the whole merged stream has ended), it returns
\* NotReady instead of looping. Only a stream's failure makes it return
\* anything else.
C13_AsStated ==
    ret.op = "StartFuture.poll" =>
        /\ ret.res # "Hang"
        /\ ret.val # "Error in transport::Engine" =>
              \A t \in Transports : WaitingOf(t) = <<>>

\* C14 as stated: once both transports' owning values are dropped, so that
\* both engine streams report end-of-stream, the merged Engine task, when
\* it runs next, observes the end and exits: it is not running any more
\* and is not scheduled again.
C14_AsStated ==
    (ret.op = "StartFuture.poll" /\ \A t \in Transports : ended[t]) =>
        /\ engine \notin {"running", "hung"}
        /\ fut # "pending"

(* ------------------------------------------------------------------ *)
(* C15                                                                 *)
(* ------------------------------------------------------------------ *)
\* a failure of transport t's engine stream is waiting to be reported
FailureQueued(t) == \E i \in 1..Len(stream[t]) : IsFailure(stream[t][i])

\* C15: when either transport's engine stream reports a failure,
\* Engine::poll returns that failure and the whole Engine stops: the poll
\* that meets the failure ends with the Engine's error, and afterwards the
\* handler is called for no further item of either transport, the items
\* still waiting on the healthy transport's stream included.
C15_StreamFailureStopsEngine ==
    [][/\ (ret'.op = "StartFuture.poll" /\ \E t \in Transports : FailureQueued(t)) =>
              /\ ret'.res = "Err"
              /\ ret'.val = "Error in transport::Engine"
              /\ engine' = "failed"
              /\ fut' = "err"
       /\ engine = "failed" => UNCHANGED <<handled, engine, fut, stream>>]_vars

\* the NTCP2 stream failed while items of the healthy NTCP stream were
\* still waiting: one NTCP item was handled, the rest never will be
C15_Witness ==
    /\ engine = "failed"
    /\ ret.op = "StartFuture.poll"
    /\ ~FailureQueued("NTCP")
    /\ WaitingOf("NTCP") # <<>>
    /\ HandledOf("NTCP") # <<>>

(* ------------------------------------------------------------------ *)
(* C16, C18                                                            *)
(* ------------------------------------------------------------------ *)
\* the step is a from_config call whose configuration has both listen
\* addresses and the key file's path, so that the key file is consulted
KeyPathStep ==
    /\ ret'.op = "Manager.from_config"
    /\ ret'.arg.ntcp_listen # None /\ ret'.arg.ntcp2_listen # None
    /\ ret'.arg.ntcp2_keyfile # None
    /\ ParseSocketAddr(ret'.arg.ntcp_listen[1]) # None
    /\ ParseSocketAddr(ret'.arg.ntcp2_listen[1]) # None

\* C16: in from_config, when loading the NTCP2 key file fails, fresh key
\* material is generated and saved before construction continues, and the
\* Manager uses what was saved; when that save fails construction aborts
\* and no Manager is produced; when the file holds material (as after one
\* successful from_config) from_config loads the same keys and neither
\* generates new ones nor writes the file.
C16_KeyMaterialPath ==
    [][KeyPathStep =>
         /\ (keyfile = None /\ keyfile_writable) =>
                /\ ret'.res = "Ok" /\ manager' = "live"
                /\ ret'.val.did = <<"ntcp::Manager::new", "ntcp2::Manager::from_file",
                                    "ntcp2::Manager::new", "ntcp2::Manager::to_file">>
                /\ keyfile' # None
                /\ FromFile(keyfile') = <<ntcp2'.key>>
         /\ (keyfile = None /\ ~keyfile_writable) =>
                /\ ret'.res = "Panic" /\ manager' = "absent"
                /\ keyfile' = None
         /\ keyfile # None =>
                /\ ret'.res = "Ok" /\ manager' = "live"
                /\ ret'.val.did = <<"ntcp::Manager::new", "ntcp2::Manager::from_file">>
                /\ keyfile' = keyfile
                /\ <<ntcp2'.key>> = FromFile(keyfile)]_vars

\* a second from_config, after a first one saved the keys "k2", the
\* process ended and the key file became read-only, built a Manager with
\* the keys "k2"
C16_Witness ==
    /\ ret.op = "Manager.from_config"
    /\ ret.res = "Ok"
    /\ ncalls >= 2
    /\ ~keyfile_writable
    /\ keyfile = ToFile("k2")
    /\ ntcp2.key = "k2"

\* C18: a missing listen address of either transport is fatal: from_config
\* panics and produces no Manager, before any transport is constructed and
\* before the key file is read or written.
C18_MissingAddressIsFatal ==
    [][(/\ ret'.op = "Manager.from_config"
        /\ ret'.arg.ntcp_listen = None \/ ret'.arg.ntcp2_listen = None) =>
          /\ ret'.res = "Panic"
          /\ ret'.val.msg \in {<<"Must configure an NTCP address">>,
                               <<"Must configure an NTCP2 address">>,
                               <<"unwrap on Err">>}
          /\ ret'.val.did = <<>>
          /\ manager' = "absent"
          /\ UNCHANGED <<keyfile, ntcp, ntcp2, ntcp_engine, ntcp2_engine>>]_vars

\* from_config panicked on a configuration that has the NTCP address and
\* the key file's path but no NTCP2 address, with no key file on disk
C18_Witness ==
    /\ ret.op = "Manager.from_config"
    /\ ret.res = "Panic"
    /\ ret.arg.ntcp_listen = <<"127.0.0.1:0">>
    /\ ret.arg.ntcp2_listen = None
    /\ ret.arg.ntcp2_keyfile # None
    /\ keyfile = None /\ keyfile_writable

(* ------------------------------------------------------------------ *)
(* C17                                                                 *)
(* ------------------------------------------------------------------ *)
\* C17: with many producers calling Handle::send on clones of one Handle
\* and one consumer, in every interleaving each successful send appears
\* exactly once in the shared message queue and each producer's own items
\* appear in that producer's call order: what the consumer has taken and
\* can still take of a producer's items is that producer's messages from
\* the first to the last one accepted, each once.
C17_ProducersKeepTheirOrder ==
    \A t \in Transports, p \in Producers :
        LET own == OwnItems(p, msg_seen[t] \o message_q[t]) IN
        /\ IsPrefix(own, Script(p))
        /\ message_rx[t] = "open" => Len(own) = SentBy(p, t)
        /\ Len(own) <= SentBy(p, t)
        /\ (ret.op = "Handle.send" /\ ret.t = t /\ ret.res = "Ok"
            /\ ret.arg[1] = ProducerPeer[p]) =>
               message_q[t] # <<>> /\ message_q[t][Len(message_q[t])] = ret.arg

\* the two producers' sends on the NTCP Handle interleaved, A, B, A, and
\* the consumer has taken the first item while the others are queued
C17_Witness ==
    /\ msg_sent["NTCP"] = <<Script("A")[1], Script("B")[1], Script("A")[2]>>
    /\ msg_seen["NTCP"] = <<Script("A")[1]>>
    /\ Len(message_q["NTCP"]) = 2

(* ------------------------------------------------------------------ *)
(* C19                                                                 *)
(* ------------------------------------------------------------------ *)
\* the size function Manager::send has to use for transport t
OwnSize(t, msg) == IF t = "NTCP" THEN Size(msg) ELSE Ntcp2Size(msg)

\* C19: on every Manager::send each owned transport is asked for a bid
\* exactly once, for the peer of the call and with the size computed by
\* the transport's own size function (NTCP the message's size, NTCP2 its
\* NTCP2 size), never with the size computed for the other transport.
C19_EachTransportAskedWithOwnSize ==
    ret.op = "Manager.send" =>
        LET asked == ret.arg[4] IN
        /\ Len(asked) = Cardinality(Transports)
        /\ \A t \in Transports :
              /\ Cardinality({i \in 1..Len(asked) : asked[i].t = t}) = 1
              /\ \A i \in 1..Len(asked) :
                    asked[i].t = t =>
                        /\ asked[i].peer = ret.arg[1]
                        /\ asked[i].size = OwnSize(t, ret.arg[2])
                        /\ asked[i].size # OwnSize(Other(t), ret.arg[2])

\* a send in which both transports answered their bid calls
C19_Witness ==
    /\ ret.op = "Manager.send"
    /\ ret.res = "Ok"
    /\ \A t \in Transports : ret.arg[3][t] # None
    /\ ret.arg[2] = "m2"

(* ------------------------------------------------------------------ *)
(* C20                                                                 *)
(* ------------------------------------------------------------------ *)
\* C20: in every state of a Manager, after any sequence of from_config,
\* send, addresses and start calls (failed second starts included), the
\* two not-yet-started engine slots are both present or both empty: both
\* present from construction until the first start, both empty afterwards;
\* send and addresses never change them.
C20_EngineSlotsTogether ==
    [][/\ manager' = "live" =>
              /\ ntcp_engine' = ntcp2_engine'
              /\ ntcp_engine' = "Some" <=> fut' = "none"
       /\ (ret'.op = "Manager.from_config" /\ ret'.res = "Ok") =>
              ntcp_engine' = "Some" /\ ntcp2_engine' = "Some"
       /\ ret'.op \in {"Manager.send", "Manager.addresses"} =>
              UNCHANGED <<ntcp_engine, ntcp2_engine>>
       /\ ret'.op = "Manager.start" =>
              /\ ntcp_engine' = "None" /\ ntcp2_engine' = "None"
              /\ ret'.res = "Ok" <=> ntcp_engine = "Some"
       /\ (manager = "live" /\ ntcp_engine = "None") =>
              ntcp_engine' = "None" /\ ntcp2_engine' = "None"]_vars

\* a second start has just failed, after the first one took the engines:
\* both slots are empty
C20_Witness ==
    /\ ret.op = "Manager.start"
    /\ ret.res = "Panic"
    /\ manager = "live"
    /\ fut = "pending"
    /\ ntcp_engine = "None" /\ ntcp2_engine = "None"

====
